---- MODULE Spec2Model ----
(***************************************************************************)
(* A model of nooda's chart engine (src/nooda/chart/ops.py, agg.py): the   *)
(* calendar clamps and windows of the Daily / Weekly / Monthly panels, the *)
(* per-series aggregation pipeline and the join of Plot.data, avg_daily,   *)
(* and the panels a Chart chooses by itself.                               *)
(*                                                                         *)
(* The engine is stateless.  The state of the model is the panel that was  *)
(* constructed (Plot.__init__ and its subclasses) and the last call made   *)
(* on it with its arguments, locals and result: _clamp(dt) or data(raw);   *)
(* or the group-by call with avg_daily; or the Chart and its _plots(df).   *)
(*                                                                         *)
(* The programs around the engine each have a specification of their own:  *)
(* SpecAthena, a call of _query_athena (src/nooda/vendor/aws/athena.py);   *)
(* SpecSend, a call of send (src/nooda/slack/send.py); SpecMagic, a        *)
(* session of %slack and %slack_thread lines (src/nooda/slack/magic.py);   *)
(* SpecPublish, a call of header_entries (src/nooda/publish/__main__.py).  *)
(***************************************************************************)
EXTENDS Integers, Sequences, FiniteSets

\* ------------------------------------------------------------------ bounds
\* the longest raw table handed to Plot.data
MaxRows == 2
\* the largest window size (days / weeks / months) a panel is built with
MaxIncrements == 2

\* ---------------------------------------------------------------- calendar
\* A timestamp is [year, month, day, hour]; None is <<>> and Some(x) is <<x>>.
None == <<>>

Some(x) == <<x>>

DT(y, m, d, h) == [year |-> y, month |-> m, day |-> d, hour |-> h]

IsLeap(y) == (y % 4 = 0 /\ y % 100 # 0) \/ y % 400 = 0

DaysInMonth(y, m) ==
    IF m = 2 THEN (IF IsLeap(y) THEN 29 ELSE 28)
    ELSE IF m \in {4, 6, 9, 11} THEN 30 ELSE 31

DaysBeforeYear(y) ==
    LET p == y - 1 IN p * 365 + (p \div 4) - (p \div 100) + (p \div 400)

DAYS_BEFORE_MONTH == <<0, 31, 59, 90, 120, 151, 181, 212, 243, 273, 304, 334>>

DaysBeforeMonth(y, m) == DAYS_BEFORE_MONTH[m] + (IF m > 2 /\ IsLeap(y) THEN 1 ELSE 0)

\* date.toordinal(): 0001-01-01 is day 1
ToOrdinal(dt) == DaysBeforeYear(dt.year) + DaysBeforeMonth(dt.year, dt.month) + dt.day

\* the month and the day of day n (from 0) of year y: the month is estimated as
\* (n + 50) >> 5 and corrected when the estimate is one too far
MonthDay(y, n, h) ==
    LET m == (n + 50) \div 32
    IN  IF DaysBeforeMonth(y, m) > n
        THEN DT(y, m - 1, n - DaysBeforeMonth(y, m - 1) + 1, h)
        ELSE DT(y, m, n - DaysBeforeMonth(y, m) + 1, h)

\* the year of day n (from 0) of a 400-year cycle that starts with year y0
YearDay(y0, n, h) ==
    LET n100 == n \div 36524
        n4 == (n % 36524) \div 1461
        n1 == ((n % 36524) % 1461) \div 365
    IN  IF n1 = 4 \/ n100 = 4
        THEN DT(y0 + n100 * 100 + n4 * 4 + n1 - 1, 12, 31, h)
        ELSE MonthDay(y0 + n100 * 100 + n4 * 4 + n1, ((n % 36524) % 1461) % 365, h)

\* date.fromordinal() followed by datetime.combine with the hour given
FromOrdinal(n, h) == YearDay(((n - 1) \div 146097) * 400 + 1, (n - 1) % 146097, h)

\* datetime.weekday(): Monday is 0
Weekday(dt) == (ToOrdinal(dt) + 6) % 7

\* the order of naive datetimes, in hours since 0001-01-01T00:00
ToHours(dt) == (ToOrdinal(dt) - 1) * 24 + dt.hour

\* dt + relativedelta(years, months, days): dateutil's __radd__; the constructor's
\* _fix() has folded |months| > 11 into years
AddRelativeDelta(dt, years, months, days) ==
    LET y0 == dt.year + years
        m0 == dt.month + months
        y1 == IF m0 > 12 THEN y0 + 1 ELSE IF m0 < 1 THEN y0 - 1 ELSE y0
        m1 == IF m0 > 12 THEN m0 - 12 ELSE IF m0 < 1 THEN m0 + 12 ELSE m0
        d1 == IF dt.day > DaysInMonth(y1, m1) THEN DaysInMonth(y1, m1) ELSE dt.day
    IN FromOrdinal(ToOrdinal(DT(y1, m1, d1, dt.hour)) + days, dt.hour)

\* relativedelta(months=n)._fix(): the sign is kept, 12 months make a year
FixYears(n) == IF n >= 0 THEN n \div 12 ELSE 0 - ((0 - n) \div 12)

FixMonths(n) == IF n >= 0 THEN n % 12 ELSE 0 - ((0 - n) % 12)

\* ------------------------------------------------------------------ values
\* A cell of the raw table is <<>> (missing: NaN) or <<v>>.  The result of an
\* aggregation is a float: a fraction in lowest terms, or what IEEE division by
\* zero gives: nan (0/0), inf (x/0, x > 0), -inf (x/0, x < 0).
NaN == <<>>

notnull(cell) == cell # NaN

RECURSIVE Gcd(_, _)
Gcd(x, y) == IF y = 0 THEN x ELSE Gcd(y, x % y)

Abs(x) == IF x < 0 THEN 0 - x ELSE x

Float(n, d) ==
    LET g == Gcd(Abs(n), d) IN [kind |-> "num", num |-> n \div g, den |-> d \div g]

FloatNaN == [kind |-> "nan", num |-> 0, den |-> 0]

FloatInf == [kind |-> "inf", num |-> 1, den |-> 0]

FloatNegInf == [kind |-> "-inf", num |-> 0 - 1, den |-> 0]

\* numpy's true division of two column sums
TrueDivide(n, d) ==
    IF d # 0 THEN (IF d > 0 THEN Float(n, d) ELSE Float(0 - n, 0 - d))
    ELSE IF n = 0 THEN FloatNaN
    ELSE IF n > 0 THEN FloatInf ELSE FloatNegInf

\* pandas' sum of a column of a sub-table: missing cells are skipped, and the sum
\* of no cell is 0
RECURSIVE ColumnSum(_, _)
ColumnSum(rows, col) ==
    IF rows = <<>> THEN 0
    ELSE (IF notnull(Head(rows)[col]) THEN Head(rows)[col][1] ELSE 0)
            + ColumnSum(Tail(rows), col)

\* --------------------------------------------------------- aggregations
\* np.sum, the aggregation of the auto-built series
np_sum == [fn |-> "sum", num |-> "", denom |-> ""]

ratio(num, denom) == [fn |-> "ratio", num |-> num, denom |-> denom]

\* series.agg applied to the sub-table of one bucket (the series' columns selected)
ApplyAgg(agg, columns, rows) ==
    IF agg.fn = "ratio"
    THEN TrueDivide(ColumnSum(rows, agg.num), ColumnSum(rows, agg.denom))
    ELSE Float(ColumnSum(rows, columns[1]), 1)

\* ------------------------------------------------------------------ series
relativedelta(years, months, days) ==
    [years |-> years + FixYears(months), months |-> FixMonths(months), days |-> days]

Series(columns, label, agg, offset) ==
    [columns |-> columns, label |-> label, agg |-> agg, offset |-> offset]

\* ------------------------------------------------------------------ clamps
Daily_clamp(dt) == DT(dt.year, dt.month, dt.day, 0)

\* the slip of counting the days since Monday from 1 (isoweekday())
Weekly_clamp_isoweekday(dt) ==
    LET day == DT(dt.year, dt.month, dt.day, 0)
    IN AddRelativeDelta(day, 0, 0, 0 - (Weekday(day) + 1))

\* the slip of a week that starts on Sunday
Weekly_clamp_sunday(dt) ==
    LET day == DT(dt.year, dt.month, dt.day, 0)
    IN AddRelativeDelta(day, 0, 0, 0 - ((Weekday(day) + 1) % 7))

Weekly_clamp(dt) ==
    LET day == DT(dt.year, dt.month, dt.day, 0)
    IN AddRelativeDelta(day, 0, 0, 0 - Weekday(day))

Monthly_clamp(dt) == DT(dt.year, dt.month, 1, 0)

\* The tzinfo of a timestamp is None (naive) or Some(timezone); it is carried
\* beside the [year, month, day, hour] of the timestamp.
\* the slip of the superseded chartlib clamps: datetime(dt.year, dt.month, dt.day)
Clamp_tzinfo_naive(dt_tzinfo) == None

\* the tzinfo of _clamp's result: datetime(..., tzinfo=dt.tzinfo), and the
\* subtraction of a relativedelta keeps it
Clamp_tzinfo(dt_tzinfo) == dt_tzinfo

\* self._clamp(dt) of a panel of the kind given
Clamp(kind, dt) ==
    CASE kind = "Daily" -> Daily_clamp(dt)
      [] kind = "Weekly" -> Weekly_clamp(dt)
      [] kind = "Monthly" -> Monthly_clamp(dt)

\* ------------------------------------------------------------------ bounds
Bounds(earliest, latest) == [earliest |-> earliest, latest |-> latest]

\* the reference of the superseded chartlib panels: df.index.max(), whatever the
\* row holds
Plot_max_dt_index_max(self, df) ==
    IF Len(df) = 0 THEN None
    ELSE Some(df[CHOOSE i \in 1..Len(df) :
                    \A j \in 1..Len(df) : ToHours(df[j].ts) <= ToHours(df[i].ts)].ts)

\* Plot._max_dt: the largest index among the rows with a value in some relevant
\* column; None is NaT (no such row)
Plot_max_dt(self, df) ==
    LET series_columns ==
            IF self.range_columns # None THEN self.range_columns[1]
            ELSE UNION {{s.columns[j] : j \in 1..Len(s.columns)} :
                            s \in {self.series[i] : i \in 1..Len(self.series)}}
        valid == {i \in 1..Len(df) : \E c \in series_columns : notnull(df[i][c])}
    IN  IF valid = {} THEN None
        ELSE Some(df[CHOOSE i \in valid :
                        \A j \in valid : ToHours(df[j].ts) <= ToHours(df[i].ts)].ts)

\* the slip of advancing the Daily window past the reference day, as the Weekly
\* and Monthly windows are
Daily_bounds_advanced(self, max_dt) ==
    LET latest_dt == AddRelativeDelta(DT(max_dt.year, max_dt.month, max_dt.day, 0), 0, 0, 1)
        earliest_dt == AddRelativeDelta(latest_dt, 0, 0, 0 - self.increments)
    IN Bounds(earliest_dt, latest_dt)

Daily_bounds(self, max_dt) ==
    LET latest_dt == DT(max_dt.year, max_dt.month, max_dt.day, 0)
        earliest_dt == AddRelativeDelta(latest_dt, 0, 0, 0 - self.increments)
    IN Bounds(earliest_dt, latest_dt)

\* the slip of a week counted from the reference day, the clamp left out
Weekly_bounds_unclamped(self, max_dt) ==
    LET latest_dt == AddRelativeDelta(DT(max_dt.year, max_dt.month, max_dt.day, 0), 0, 0, 7)
        earliest_dt == AddRelativeDelta(latest_dt, 0, 0, 0 - 7 * self.increments)
    IN Bounds(earliest_dt, latest_dt)

Weekly_bounds(self, max_dt) ==
    LET latest_dt == AddRelativeDelta(
                        Weekly_clamp(DT(max_dt.year, max_dt.month, max_dt.day, 0)),
                        0, 0, 7)
        earliest_dt == AddRelativeDelta(latest_dt, 0, 0, 0 - 7 * self.increments)
    IN Bounds(earliest_dt, latest_dt)

\* the slip of stepping to the next month without carrying December into the
\* next year
Monthly_bounds_no_carry(self, max_dt) ==
    LET latest_dt == DT(max_dt.year, (max_dt.month % 12) + 1, 1, 0)
        earliest_dt == AddRelativeDelta(latest_dt,
                                        FixYears(0 - self.increments),
                                        FixMonths(0 - self.increments), 0)
    IN Bounds(earliest_dt, latest_dt)

Monthly_bounds(self, max_dt) ==
    LET latest_dt == AddRelativeDelta(DT(max_dt.year, max_dt.month, 1, 0), 0, 1, 0)
        earliest_dt == AddRelativeDelta(latest_dt,
                                        FixYears(0 - self.increments),
                                        FixMonths(0 - self.increments), 0)
    IN Bounds(earliest_dt, latest_dt)

\* the tzinfo of the Bounds: datetime(..., tzinfo=max_dt.tzinfo), through _clamp
\* in Weekly._bounds; adding a relativedelta keeps it
Bounds_tzinfo(kind, max_dt_tzinfo) ==
    IF kind = "Weekly" THEN Clamp_tzinfo(max_dt_tzinfo) ELSE max_dt_tzinfo

\* Python compares two datetimes when both are naive or both are aware, and
\* raises TypeError otherwise
Comparable(tzinfo1, tzinfo2) == (tzinfo1 = None) <=> (tzinfo2 = None)

PlotBounds(self, max_dt) ==
    CASE self.kind = "Daily" -> Daily_bounds(self, max_dt)
      [] self.kind = "Weekly" -> Weekly_bounds(self, max_dt)
      [] self.kind = "Monthly" -> Monthly_bounds(self, max_dt)

\* the slip of a window closed at its trailing edge
time_window_closed(bounds, dt) ==
    /\ ToHours(dt) >= ToHours(bounds.earliest)
    /\ ToHours(dt) <= ToHours(bounds.latest)

\* time_window(bounds) on one index value: the half-open window
time_window(bounds, dt) ==
    /\ ToHours(dt) >= ToHours(bounds.earliest)
    /\ ToHours(dt) < ToHours(bounds.latest)

\* ------------------------------------------------------------- series data
\* the copy of the table with the index shifted by the series' offset
ShiftIndex(df, series) ==
    IF series.offset = None THEN df
    ELSE LET o == series.offset[1]
         IN [i \in 1..Len(df) |->
                [df[i] EXCEPT !.ts = AddRelativeDelta(df[i].ts, o.years, o.months, o.days)]]

\* dropna(): the buckets whose aggregate is neither NaN nor None
DropNa(applied) ==
    LET keep == {k \in DOMAIN applied : applied[k].kind \notin {"nan", "None"}}
    IN [k \in keep |-> applied[k]]

\* groupby(self._clamp)[series.columns].apply(series.agg): the rows of the
\* windowed table are keyed by the clamp of their index, and the aggregation is
\* applied to the rows of each key, in table order
GroupByApply(self, series, windowed) ==
    LET keyed == [i \in 1..Len(windowed) |->
                    [key |-> Clamp(self.kind, windowed[i].ts), row |-> windowed[i]]]
        keys == {keyed[i].key : i \in 1..Len(keyed)}
        group(k) == LET g == SelectSeq(keyed, LAMBDA e : e.key = k)
                    IN [i \in 1..Len(g) |-> g[i].row]
    IN [k \in keys |-> ApplyAgg(series.agg, series.columns, group(k))]

\* the slip of filtering to the window before the shift
Plot_series_data_filter_first(self, df, bounds, series) ==
    LET windowed == SelectSeq(df, LAMBDA row : time_window(bounds, row.ts))
        series_df == ShiftIndex(windowed, series)
    IN DropNa(GroupByApply(self, series, series_df))

\* Plot._series_data: shift, filter to the window, group by the clamp, aggregate,
\* drop the missing results.  The result maps each bucket kept to its value.
Plot_series_data(self, df, bounds, series) ==
    LET series_df == ShiftIndex(df, series)
        windowed == SelectSeq(series_df, LAMBDA row : time_window(bounds, row.ts))
    IN DropNa(GroupByApply(self, series, windowed))

\* the slip of shifting the index of the caller's table: series_df = df
Plot_series_data_df_in_place(df, series) == ShiftIndex(df, series)

\* the caller's table after _series_data: the index of series_df, a copy, was
\* shifted, and df is as it was
Plot_series_data_df(df, series) == df

\* the list comprehension of Plot.data from series i on: the output of each
\* _series_data call on the table as the calls before it left it, and the table
\* after the last
RECURSIVE SeriesDataFrom(_, _, _, _)
SeriesDataFrom(self, df, bounds, i) ==
    IF i > Len(self.series) THEN [raw |-> df, data |-> <<>>]
    ELSE LET rest == SeriesDataFrom(self, Plot_series_data_df(df, self.series[i]),
                                    bounds, i + 1)
         IN [raw |-> rest.raw,
             data |-> <<Plot_series_data(self, df, bounds, self.series[i])>> \o rest.data]

\* the order of the bucket timestamps of a set
RECURSIVE SortedIndex(_)
SortedIndex(S) ==
    IF S = {} THEN <<>>
    ELSE LET first == CHOOSE t \in S : \A u \in S : ToHours(t) <= ToHours(u)
         IN <<first>> \o SortedIndex(S \ {first})

\* the slip of an inner join: the buckets that every series has
concat_inner(self, outputs) ==
    LET index == SortedIndex({k \in UNION {DOMAIN outputs[c] : c \in 1..Len(outputs)} :
                                \A c \in 1..Len(outputs) : k \in DOMAIN outputs[c]})
    IN [index |-> index,
        columns |-> [c \in 1..Len(outputs) |-> self.series[c].label],
        values |-> [r \in 1..Len(index) |-> [c \in 1..Len(outputs) |->
                        IF index[r] \in DOMAIN outputs[c]
                        THEN Some(outputs[c][index[r]]) ELSE NaN]]]

\* pd.concat(outputs, axis=1): the outer join of the outputs on their index, which
\* pandas sorts; one column per series, named by its label
concat(self, outputs) ==
    LET index == SortedIndex(UNION {DOMAIN outputs[c] : c \in 1..Len(outputs)})
    IN [index |-> index,
        columns |-> [c \in 1..Len(outputs) |-> self.series[c].label],
        values |-> [r \in 1..Len(index) |-> [c \in 1..Len(outputs) |->
                        IF index[r] \in DOMAIN outputs[c]
                        THEN Some(outputs[c][index[r]]) ELSE NaN]]]

\* ---------------------------------------------------------------- avg_daily
\* what a Python function returns besides a float: None, or an exception raised
PyNone == [kind |-> "None", num |-> 0, den |-> 0]

Raised(exception) == [kind |-> exception, num |-> 0, den |-> 0]

\* the largest and the smallest index of a non-empty sub-table
IndexMax(rows) ==
    rows[CHOOSE i \in 1..Len(rows) :
            \A j \in 1..Len(rows) : ToHours(rows[j].ts) <= ToHours(rows[i].ts)].ts

IndexMin(rows) ==
    rows[CHOOSE i \in 1..Len(rows) :
            \A j \in 1..Len(rows) : ToHours(rows[i].ts) <= ToHours(rows[j].ts)].ts

\* (max_dt - vals.index.min()).days: the whole days of a timedelta
TimedeltaDays(later, earlier) == (ToHours(later) - ToHours(earlier)) \div 24

\* the slip of taking the day span from all the rows of the bucket, the rows
\* without a value included
avg_daily_all_rows(xs) ==
    IF xs.type = "DataFrame" /\ Len(xs.columns) # 1 THEN Raised("AssertionError")
    ELSE LET vals == SelectSeq(xs.rows, LAMBDA row : notnull(row[xs.columns[1]]))
         IN  IF vals = <<>> THEN PyNone
             ELSE Float(ColumnSum(vals, xs.columns[1]),
                        TimedeltaDays(IndexMax(xs.rows), IndexMin(xs.rows)) + 1)

\* the slip of an exclusive day span: the "+ 1" left out
avg_daily_exclusive(xs) ==
    IF xs.type = "DataFrame" /\ Len(xs.columns) # 1 THEN Raised("AssertionError")
    ELSE LET vals == SelectSeq(xs.rows, LAMBDA row : notnull(row[xs.columns[1]]))
         IN  IF vals = <<>> THEN PyNone
             ELSE TrueDivide(ColumnSum(vals, xs.columns[1]),
                             TimedeltaDays(IndexMax(vals), IndexMin(vals)))

\* avg_daily(xs): xs is the column of one bucket (a pd.Series, when the group-by
\* selects a column name) or its sub-table (a pd.DataFrame, when it selects a
\* list of names)
avg_daily(xs) ==
    IF xs.type = "DataFrame" /\ Len(xs.columns) # 1 THEN Raised("AssertionError")
    ELSE LET vals == SelectSeq(xs.rows, LAMBDA row : notnull(row[xs.columns[1]]))
         IN  IF vals = <<>> THEN PyNone
             ELSE Float(ColumnSum(vals, xs.columns[1]),
                        TimedeltaDays(IndexMax(vals), IndexMin(vals)) + 1)

\* df.groupby(_clamp_to_month)[columns].apply(avg_daily) of the tests: columns is
\* a column name (type "Series") or a list of names (type "DataFrame")
GroupByMonthApply(type, columns, df) ==
    LET keys == {Monthly_clamp(df[i].ts) : i \in 1..Len(df)}
        group(k) == SelectSeq(df, LAMBDA row : Monthly_clamp(row.ts) = k)
    IN [k \in keys |-> avg_daily([type |-> type, columns |-> columns, rows |-> group(k)])]

\* --------------------------------------------------------------- the panel
\* the slip of an assertion that cannot fail
Plot_init_ok_any(series) ==
    Cardinality({i \in 1..Len(series) : series[i].offset = None}) >= 0

\* Plot.__init__'s assertion: some series has no offset
Plot_init_ok(series) ==
    Cardinality({i \in 1..Len(series) : series[i].offset = None}) > 0

Plot(kind, series, increments, range_columns) ==
    [kind |-> kind, series |-> series, increments |-> increments,
     range_columns |-> range_columns]

\* --------------------------------------------------------------- the chart
LINE_STYLES == <<"-", "--", "-.", ":">>

\* the series Chart._plots builds for a numeric column: Series(columns=col,
\* label=col, agg=np.sum, style=SeriesStyle(linestyle=line_style)), no offset
AutoSeries(col, line_style) ==
    [columns |-> <<col>>, label |-> col, agg |-> np_sum, offset |-> None,
     style |-> [color |-> "black", linestyle |-> line_style]]

\* the slip of one line style for every column
AutoSeriesList_one_style(numeric_columns) ==
    [i \in 1..Len(numeric_columns) |-> AutoSeries(numeric_columns[i], LINE_STYLES[1])]

\* zip(numeric_columns, LINE_STYLES[: len(numeric_columns)])
AutoSeriesList(numeric_columns) ==
    [i \in 1..Len(numeric_columns) |-> AutoSeries(numeric_columns[i], LINE_STYLES[i])]

\* the slip of thresholds that belong to the rule below them
AutoPlots_inclusive(series, days_in_index) ==
    IF days_in_index <= 14
    THEN <<Plot("Daily", series, days_in_index, None)>>
    ELSE IF days_in_index <= 31
    THEN <<Plot("Daily", series, 7, None), Plot("Weekly", series, 4, None)>>
    ELSE IF days_in_index <= 365
    THEN <<Plot("Daily", series, 7, None), Plot("Weekly", series, 6, None)>>
    ELSE <<Plot("Daily", series, 7, None), Plot("Weekly", series, 6, None),
           Plot("Monthly", series, 12, None)>>

\* the panels chosen from the span of the index
AutoPlots(series, days_in_index) ==
    IF days_in_index < 14
    THEN <<Plot("Daily", series, days_in_index, None)>>
    ELSE IF days_in_index < 31
    THEN <<Plot("Daily", series, 7, None), Plot("Weekly", series, 4, None)>>
    ELSE IF days_in_index < 365
    THEN <<Plot("Daily", series, 7, None), Plot("Weekly", series, 6, None)>>
    ELSE <<Plot("Daily", series, 7, None), Plot("Weekly", series, 6, None),
           Plot("Monthly", series, 12, None)>>

\* the Chart function of the superseded chartlib: its assertion on the panel
\* list, before the rendering
chartlib_Chart(df, plots) == IF Len(plots) > 0 THEN "none" ELSE "AssertionError"

\* Chart.__init__: the panel list is stored as given
Chart(plots) == [plots |-> plots]

\* Chart._plots(df): the panels, or the Exception raised
Chart_plots(self, df) ==
    IF ~df.datetime_index THEN [exc |-> "Exception", plots |-> <<>>]
    ELSE IF Len(self.plots) > 0 THEN [exc |-> "none", plots |-> self.plots]
    ELSE IF Len(df.numeric_columns) = 0 THEN [exc |-> "Exception", plots |-> <<>>]
    ELSE IF Len(df.numeric_columns) > Len(LINE_STYLES)
    THEN [exc |-> "Exception", plots |-> <<>>]
    ELSE [exc |-> "none",
          plots |-> AutoPlots(AutoSeriesList(df.numeric_columns),
                              TimedeltaDays(IndexMax(df.rows), IndexMin(df.rows)))]

\* ------------------------------------------------------------------ inputs
\* the days 2023-12-28 (a Thursday) .. 2024-01-03: every weekday, a month's end,
\* a year's end
TableDays == {FromOrdinal(ToOrdinal(DT(2023, 12, 28, 0)) + k, 0) : k \in 0..6}

\* the index values of the raw tables: each of the days at midnight, and noon of
\* the last day of the year and of the first day of the next
TableTimestamps == TableDays \cup {DT(2023, 12, 31, 12), DT(2024, 1, 1, 12)}

\* the arguments of the _clamp calls: the table's days, the days of the tests, the
\* leap day and its neighbours, at midnight, at noon and in the last hour
ClampDays ==
    TableDays \cup {DT(2023, 7, 3, 0), DT(2023, 7, 9, 0), DT(2023, 11, 30, 0),
                    DT(2024, 2, 28, 0), DT(2024, 2, 29, 0), DT(2024, 3, 1, 0),
                    DT(2024, 12, 31, 0)}

ClampTimestamps == {DT(d.year, d.month, d.day, h) : d \in ClampDays, h \in {0, 12, 23}}

\* the index values of the tables of several rows: a Saturday's noon, the noon of
\* the Sunday that ends the year and the Monday that starts the next
YearEndTimestamps == {DT(2023, 12, 30, 12), DT(2023, 12, 31, 12), DT(2024, 1, 1, 0)}

Cells == {NaN, <<0>>, <<1>>}

Rows(timestamps) == [ts : timestamps, a : Cells, b : Cells]

\* the index of the tables of two rows: a year apart, in either order, and twice
\* the same timestamp
PairTimestamps ==
    {<<DT(2022, 12, 31, 12), DT(2023, 12, 31, 12)>>,
     <<DT(2023, 12, 31, 12), DT(2022, 12, 31, 12)>>,
     <<DT(2023, 12, 31, 12), DT(2023, 12, 31, 12)>>}

PairTables ==
    {[i \in 1..2 |-> [ts |-> index[i], a |-> cells[i].a, b |-> cells[i].b]] :
     index \in PairTimestamps, cells \in [1..2 -> [a : Cells, b : Cells]]}

\* the raw tables: every table of one row, the tables of at most MaxRows rows
\* around the year's end, with distinct timestamps in increasing order, and the
\* tables of two rows above
Tables ==
    {<<row>> : row \in Rows(TableTimestamps)}
        \cup UNION {{df \in [1..n -> Rows(YearEndTimestamps)] :
                        \A i \in 1..(n - 1) : ToHours(df[i].ts) < ToHours(df[i + 1].ts)} :
                    n \in 0..MaxRows}
        \cup PairTables

\* the tzinfo of a timestamp: naive, or aware
Tzinfos == {None, Some("UTC")}

\* the tzinfo of the index of a table: the tables of one row are handed with a
\* naive and with an aware index, the others with a naive index
IndexTzinfos(df) == IF Len(df) = 1 THEN Tzinfos ELSE {None}

\* the tables of the group-by calls: the rows present among five days of
\* February and March 2023, a noon included, with a value of 1 or 3 or none
MonthTimestamps ==
    {DT(2023, 2, 1, 0), DT(2023, 2, 1, 12), DT(2023, 2, 2, 0), DT(2023, 2, 14, 0),
     DT(2023, 3, 1, 0)}

MonthCells == {NaN, <<1>>, <<3>>}

MonthTables ==
    {[i \in 1..Cardinality(present) |->
        [ts |-> SortedIndex(present)[i], a |-> cells[SortedIndex(present)[i]], b |-> NaN]] :
     present \in (SUBSET MonthTimestamps) \ {{}}, cells \in [MonthTimestamps -> MonthCells]}

\* the selections of the group-by: a column name, a list of one name, and a list
\* of two
GroupBySelections ==
    {[type |-> "Series", columns |-> <<"a">>],
     [type |-> "DataFrame", columns |-> <<"a">>],
     [type |-> "DataFrame", columns |-> <<"a", "b">>]}

\* the tables handed to a Chart: whether the index is a DatetimeIndex, the names
\* of the numeric columns in column order, and the rows with the earliest and the
\* latest index; the spans are the days on both sides of each threshold, from a
\* midnight or a noon to a midnight or a noon
ChartSpans == {0, 1, 13, 14, 30, 31, 364, 365, 366}

ChartColumns == <<"a", "b", "c", "d", "e">>

ChartFrames ==
    {[datetime_index |-> TRUE, numeric_columns |-> SubSeq(ChartColumns, 1, n),
      rows |-> <<[ts |-> DT(2022, 7, 1, h1)],
                 [ts |-> FromOrdinal(ToOrdinal(DT(2022, 7, 1, 0)) + d, h2)]>>] :
        n \in 0..Len(ChartColumns), d \in ChartSpans, h1 \in {0, 12}, h2 \in {0, 12}}
    \cup {[datetime_index |-> FALSE, numeric_columns |-> SubSeq(ChartColumns, 1, n),
           rows |-> <<>>] : n \in 0..Len(ChartColumns)}

SumA == Series(<<"a">>, "a", np_sum, None)

SumB == Series(<<"b">>, "b", np_sum, None)

RatioAB == Series(<<"a", "b">>, "a/b", ratio("a", "b"), None)

SumANextDay == Series(<<"a">>, "a (+1d)", np_sum, Some(relativedelta(0, 0, 1)))

RatioABYoY == Series(<<"a", "b">>, "a/b (YoY)", ratio("a", "b"), Some(relativedelta(0, 12, 0)))

\* the panel lists the Charts are constructed with: none, and a Daily and a
\* Monthly panel
ChartPlots ==
    {<<>>,
     <<Plot("Daily", <<SumA>>, 7, None),
       Plot("Monthly", <<RatioAB, RatioABYoY>>, 12, None)>>}

\* the series lists the panels are constructed with
SeriesLists ==
    {<<SumA>>, <<RatioAB, SumANextDay, SumB, RatioABYoY>>,
     <<>>, <<SumANextDay>>, <<SumANextDay, RatioABYoY>>}

Kinds == {"Plot", "Daily", "Weekly", "Monthly"}

Increments == 0..MaxIncrements

RangeColumns == {None, Some({"b"})}

\* ------------------------------------------------------------------- state
VARIABLES
    pc,        \* "start", "constructed", "failed", "clamped", "data"
    args,      \* the arguments of the constructor call, None before it
    plot,      \* the panel constructed, None when there is none
    exc,       \* the exception the last call raised, "none" when it returned
    dt,        \* the argument of the last _clamp call
    clamped,   \* its result
    raw,       \* the table of the last data call
    max_dt,    \* the reference timestamp _bounds found in it (None: NaT)
    bounds,    \* the Bounds it computed
    data,      \* the outputs of _series_data, one per series, in series order
    frame,     \* the table Plot.data returned, None when it raised
    raw_after, \* the caller's table after the data call
    tzinfo,    \* the tzinfo of the index (or of dt), of the Bounds and of the buckets
    call,      \* the arguments of the last group-by or Chart call, None before it
    plots,     \* the panels Chart._plots returned
    athena,    \* a call of _query_athena and the execution it reads
    slack,     \* a call of send and the shares of the file it uploaded
    ipython,   \* the notebook session of the %slack and %slack_thread magics
    publish    \* a call of header_entries

\* the chart engine's variables, and those of the programs around it
engine == <<pc, args, plot, exc, dt, clamped, raw, max_dt, bounds, data,
            frame, raw_after, tzinfo, call, plots>>

collaborators == <<athena, slack, ipython, publish>>

vars == <<pc, args, plot, exc, dt, clamped, raw, max_dt, bounds, data,
          frame, raw_after, tzinfo, call, plots, athena, slack, ipython, publish>>

\* no call made yet
NotCalled == [pc |-> "idle"]

\* the namespace of the notebook before any magic ran: two variables of the
\* user, a string and a None
UserNs ==
    [name \in {"chan", "nothing"} |->
        IF name = "chan" THEN [type |-> "str", text |-> "C1"]
        ELSE [type |-> "NoneType", text |-> ""]]

Init ==
    /\ pc = "start"
    /\ args = None
    /\ plot = None
    /\ exc = "none"
    /\ dt = None
    /\ clamped = None
    /\ raw = <<>>
    /\ max_dt = None
    /\ bounds = None
    /\ data = <<>>
    /\ frame = None
    /\ raw_after = <<>>
    /\ tzinfo = None
    /\ call = None
    /\ plots = <<>>
    /\ athena = NotCalled
    /\ slack = NotCalled
    /\ ipython = [user_ns |-> UserNs, history |-> <<>>]
    /\ publish = NotCalled

\* Plot.__init__ (through Daily, Weekly, Monthly.__init__ or directly)
Plot_init(kind, series, increments, range_columns) ==
    /\ args' = Some(Plot(kind, series, increments, range_columns))
    /\ IF Plot_init_ok(series)
       THEN /\ plot' = Some(Plot(kind, series, increments, range_columns))
            /\ pc' = "constructed"
            /\ exc' = "none"
       ELSE /\ plot' = None
            /\ pc' = "failed"
            /\ exc' = "AssertionError"
    /\ UNCHANGED <<dt, clamped, raw, max_dt, bounds, data>>
    /\ UNCHANGED <<frame, raw_after, tzinfo, call, plots>>

Construct ==
    /\ pc = "start"
    /\ \E kind \in Kinds, series \in SeriesLists, increments \in Increments,
          range_columns \in RangeColumns :
            Plot_init(kind, series, increments, range_columns)
    /\ UNCHANGED collaborators

\* self._clamp(t) on a Daily, Weekly or Monthly panel
ClampCall ==
    /\ pc = "constructed"
    /\ plot[1].kind # "Plot"
    /\ \E t \in ClampTimestamps, dt_tzinfo \in Tzinfos :
        /\ dt' = Some(t)
        /\ clamped' = Some(Clamp(plot[1].kind, t))
        /\ tzinfo' = [index |-> dt_tzinfo, bounds |-> None,
                      buckets |-> Clamp_tzinfo(dt_tzinfo)]
    /\ pc' = "clamped"
    /\ exc' = "none"
    /\ UNCHANGED <<args, plot, raw, max_dt, bounds, data>>
    /\ UNCHANGED <<frame, raw_after, call, plots>>
    /\ UNCHANGED collaborators

\* Plot.data(df) on a Daily, Weekly or Monthly panel: _bounds, then _series_data
\* for each series, then the join.  _bounds raises TypeError when no row has a
\* value in the relevant columns (datetime() of the fields of NaT); time_window
\* raises it when the index and the Bounds are not both naive or both aware.
Plot_data(self, df, index_tzinfo) ==
    /\ raw' = df
    /\ \E ref \in {Plot_max_dt(self, df)} :
        IF ref = None
        THEN /\ exc' = "TypeError"
             /\ max_dt' = None /\ bounds' = None /\ data' = <<>>
             /\ frame' = None /\ raw_after' = df
             /\ tzinfo' = [index |-> index_tzinfo, bounds |-> None, buckets |-> None]
        ELSE \E b \in {PlotBounds(self, ref[1])} :
                /\ max_dt' = ref
                /\ bounds' = Some(b)
                /\ IF Comparable(index_tzinfo, Bounds_tzinfo(self.kind, index_tzinfo))
                   THEN \E out \in {SeriesDataFrom(self, df, b, 1)} :
                            /\ exc' = "none"
                            /\ data' = out.data
                            /\ raw_after' = out.raw
                            /\ frame' = Some(concat(self, out.data))
                            /\ tzinfo' = [index |-> index_tzinfo,
                                          bounds |-> Bounds_tzinfo(self.kind, index_tzinfo),
                                          buckets |-> Clamp_tzinfo(index_tzinfo)]
                   ELSE /\ exc' = "TypeError: can't compare offset-naive and offset-aware datetimes"
                        /\ data' = <<>> /\ frame' = None /\ raw_after' = df
                        /\ tzinfo' = [index |-> index_tzinfo,
                                      bounds |-> Bounds_tzinfo(self.kind, index_tzinfo),
                                      buckets |-> None]

DataCall ==
    /\ pc = "constructed"
    /\ plot[1].kind # "Plot"
    /\ \E df \in Tables : \E index_tzinfo \in IndexTzinfos(df) :
            Plot_data(plot[1], df, index_tzinfo)
    /\ pc' = "data"
    /\ UNCHANGED <<args, plot, dt, clamped, call, plots>>
    /\ UNCHANGED collaborators

\* the abstract methods of the base class: _clamp and _bounds of a Plot
AbstractCall ==
    /\ pc = "constructed"
    /\ plot[1].kind = "Plot"
    /\ pc' = "failed"
    /\ exc' = "NotImplementedError"
    /\ UNCHANGED <<args, plot, dt, clamped, raw, max_dt, bounds, data>>
    /\ UNCHANGED <<frame, raw_after, tzinfo, call, plots>>
    /\ UNCHANGED collaborators

\* the group-by of the tests of avg_daily, followed by dropna(); an exception of
\* avg_daily ends the call
GroupByCall ==
    /\ pc = "start"
    /\ \E xs \in GroupBySelections, df \in MonthTables :
        /\ call' = Some(xs)
        /\ raw' = df
        /\ \E applied \in {GroupByMonthApply(xs.type, xs.columns, df)} :
            IF \E k \in DOMAIN applied : applied[k].kind = "AssertionError"
            THEN exc' = "AssertionError" /\ data' = <<>>
            ELSE exc' = "none" /\ data' = <<DropNa(applied)>>
    /\ pc' = "grouped"
    /\ UNCHANGED <<args, plot, dt, clamped, max_dt, bounds>>
    /\ UNCHANGED <<frame, raw_after, tzinfo, plots>>
    /\ UNCHANGED collaborators

\* Chart.__init__
Chart_init ==
    /\ pc = "start"
    /\ \E explicit \in ChartPlots : call' = Some([self |-> Chart(explicit), df |-> None])
    /\ pc' = "chart"
    /\ exc' = "none"
    /\ UNCHANGED <<args, plot, dt, clamped, raw, max_dt, bounds, data>>
    /\ UNCHANGED <<frame, raw_after, tzinfo, plots>>
    /\ UNCHANGED collaborators

\* Chart._plots(df), the first step of Chart.data(df) and of Chart.plot(df)
Chart_plotsCall ==
    /\ pc = "chart"
    /\ \E df \in ChartFrames :
        /\ call' = Some([self |-> call[1].self, df |-> Some(df)])
        /\ \E result \in {Chart_plots(call[1].self, df)} :
            /\ exc' = result.exc
            /\ plots' = result.plots
    /\ pc' = "plots"
    /\ UNCHANGED <<args, plot, dt, clamped, raw, max_dt, bounds, data>>
    /\ UNCHANGED <<frame, raw_after, tzinfo>>
    /\ UNCHANGED collaborators

\* chartlib's Chart(df, plots=...), up to its assertion
chartlib_ChartCall ==
    /\ pc = "start"
    /\ \E df \in ChartFrames, explicit \in ChartPlots :
        /\ call' = Some([self |-> Chart(explicit), df |-> Some(df)])
        /\ exc' = chartlib_Chart(df, explicit)
    /\ pc' = "chartlib"
    /\ UNCHANGED <<args, plot, dt, clamped, raw, max_dt, bounds, data>>
    /\ UNCHANGED <<frame, raw_after, tzinfo, plots>>
    /\ UNCHANGED collaborators

Next ==
    \/ Construct
    \/ ClampCall
    \/ DataCall
    \/ AbstractCall
    \/ GroupByCall
    \/ Chart_init
    \/ Chart_plotsCall
    \/ chartlib_ChartCall

Spec == Init /\ [][Next]_vars

\* ------------------------------------------------------------ properties
\* The calendar notions the properties are stated with, defined without the
\* clamps and the windows of the panels.
ValidDT(t) ==
    /\ t.month \in 1..12
    /\ t.day \in 1..DaysInMonth(t.year, t.month)
    /\ t.hour \in 0..23

IsMidnight(t) == ValidDT(t) /\ t.hour = 0

SameDay(t, u) == t.year = u.year /\ t.month = u.month /\ t.day = u.day

\* the number of a calendar month, and of a week that starts on Monday
MonthIndex(t) == t.year * 12 + t.month - 1

WeekIndex(t) == (ToOrdinal(t) - 1) \div 7

SameBucket(kind, t, u) ==
    CASE kind = "Daily" -> SameDay(t, u)
      [] kind = "Weekly" -> WeekIndex(t) = WeekIndex(u)
      [] kind = "Monthly" -> MonthIndex(t) = MonthIndex(u)

\* the start of the bucket that follows the bucket starting at c
NextBucket(kind, c) ==
    CASE kind = "Daily" -> AddRelativeDelta(c, 0, 0, 1)
      [] kind = "Weekly" -> AddRelativeDelta(c, 0, 0, 7)
      [] kind = "Monthly" -> AddRelativeDelta(c, 0, 1, 0)

DataReturned == pc = "data" /\ exc = "none"

DataOf(kind) == DataReturned /\ plot[1].kind = kind

\* the buckets of the rows of series i that fall in the window, and the rows of
\* bucket k, after the shift by the series' offset
WindowRows(i) ==
    SelectSeq(ShiftIndex(raw, plot[1].series[i]),
              LAMBDA row : time_window(bounds[1], row.ts))

BucketRows(i, k) ==
    SelectSeq(WindowRows(i), LAMBDA row : SameBucket(plot[1].kind, row.ts, k))

WindowBuckets(i) ==
    {Clamp(plot[1].kind, WindowRows(i)[j].ts) : j \in 1..Len(WindowRows(i))}

\* C1: a Daily panel of window size n over a table with reference timestamp r has
\* latest = midnight of r's day (not the next day) and earliest = latest - n days;
\* no row dated on the reference day is in the window [earliest, latest), and no
\* series has a bucket for the reference day.
C1_DailyBounds ==
    DataOf("Daily") =>
        LET r == max_dt[1]
            b == bounds[1]
        IN  /\ b.latest = DT(r.year, r.month, r.day, 0)
            /\ IsMidnight(b.earliest)
            /\ ToOrdinal(b.latest) - ToOrdinal(b.earliest) = plot[1].increments
            /\ \A i \in 1..Len(raw) :
                    SameDay(raw[i].ts, r) => ~time_window(b, raw[i].ts)
            /\ \A i \in 1..Len(data) : \A k \in DOMAIN data[i] : ~SameDay(k, r)

\* a Daily window of two days whose reference row is dated at noon, with a bucket
\* in the first series
C1_Witness ==
    /\ DataOf("Daily")
    /\ plot[1].increments = 2
    /\ max_dt[1].hour = 12
    /\ DOMAIN data[1] # {}

\* C2: a Weekly panel of window size n over a table with reference timestamp r has
\* latest = the Monday on or before r, at midnight, plus 7 days, and earliest =
\* latest - n weeks, so that the week of r is the last bucket inside the window,
\* whatever the weekday of r.
C2_WeeklyBounds ==
    DataOf("Weekly") =>
        LET r == max_dt[1]
            b == bounds[1]
        IN  /\ IsMidnight(b.latest) /\ Weekday(b.latest) = 0
            /\ ToOrdinal(b.latest) - 7 <= ToOrdinal(r)
            /\ ToOrdinal(r) < ToOrdinal(b.latest)
            /\ IsMidnight(b.earliest)
            /\ ToOrdinal(b.latest) - ToOrdinal(b.earliest) = 7 * plot[1].increments
            /\ time_window(b, r)
            /\ time_window(b, FromOrdinal(ToOrdinal(b.latest) - 7, 0))

\* the part of C2 that the code meets: the same with "inside the window" asked of
\* the windows of one week or more only
C2_WeeklyBoundsOfPositiveSize ==
    DataOf("Weekly") =>
        LET r == max_dt[1]
            b == bounds[1]
        IN  /\ IsMidnight(b.latest) /\ Weekday(b.latest) = 0
            /\ ToOrdinal(b.latest) - 7 <= ToOrdinal(r)
            /\ ToOrdinal(r) < ToOrdinal(b.latest)
            /\ IsMidnight(b.earliest)
            /\ ToOrdinal(b.latest) - ToOrdinal(b.earliest) = 7 * plot[1].increments
            /\ plot[1].increments >= 1 =>
                    /\ time_window(b, r)
                    /\ time_window(b, FromOrdinal(ToOrdinal(b.latest) - 7, 0))

\* C3: a Monthly panel of window size n over a table with reference timestamp r has
\* latest = the 1st of the month after r's month (January of the next year after
\* December) and earliest = latest - n calendar months, across the years; the
\* window holds exactly the n calendar months that end with the month of r.
C3_MonthlyBounds ==
    DataOf("Monthly") =>
        LET r == max_dt[1]
            b == bounds[1]
            n == plot[1].increments
        IN  /\ IsMidnight(b.latest) /\ b.latest.day = 1
            /\ MonthIndex(b.latest) = MonthIndex(r) + 1
            /\ IsMidnight(b.earliest) /\ b.earliest.day = 1
            /\ MonthIndex(b.earliest) = MonthIndex(b.latest) - n
            /\ \A t \in ClampTimestamps \cup TableTimestamps :
                    time_window(b, t) <=>
                        (MonthIndex(r) - n < MonthIndex(t) /\ MonthIndex(t) <= MonthIndex(r))

\* a Monthly window of two months whose reference month is December: latest is in
\* the next year
C3_Witness ==
    /\ DataOf("Monthly")
    /\ plot[1].increments = 2
    /\ max_dt[1].month = 12
    /\ bounds[1].latest.year = max_dt[1].year + 1

\* C4: the Bounds of every panel the constructors accept, over every table, have
\* earliest < latest.
C4_EarliestBeforeLatest ==
    DataReturned => ToHours(bounds[1].earliest) < ToHours(bounds[1].latest)

\* C5: constructing a panel whose series list has no series without offset fails
\* with the assertion's error, and no data is processed; a list with a series
\* without offset is accepted.
C5_AnchorRequired ==
    args # None =>
        LET series == args[1].series
            anchored == \E i \in 1..Len(series) : series[i].offset = None
        IN  /\ ~anchored =>
                    /\ pc = "failed" /\ exc = "AssertionError" /\ plot = None
                    /\ raw = <<>> /\ max_dt = None /\ bounds = None /\ data = <<>>
                    /\ dt = None /\ clamped = None
            /\ anchored => plot = args /\ exc # "AssertionError"

\* the construction of a panel with two series, both with an offset, has failed
C5_Witness ==
    /\ exc = "AssertionError"
    /\ args[1].series = <<SumANextDay, RatioABYoY>>

\* C6: clamp is idempotent, for every timestamp and every granularity.
C6_ClampIdempotent ==
    pc = "clamped" => Clamp(plot[1].kind, clamped[1]) = clamped[1]

\* a Weekly clamp that moved its argument to another day
C6_Witness ==
    /\ pc = "clamped"
    /\ plot[1].kind = "Weekly"
    /\ ~SameDay(clamped[1], dt[1])

\* C7: clamp maps a timestamp to the start of its own bucket (midnight of the day;
\* midnight of the Monday on or before the day; midnight of the 1st of the month),
\* so clamp(t) <= t < clamp(t) + one bucket, and two timestamps have the same clamp
\* exactly when they are in the same day / Monday-based week / month.
C7_ClampIsBucketStart ==
    pc = "clamped" =>
        LET kind == plot[1].kind
            t == dt[1]
            c == clamped[1]
        IN  /\ IsMidnight(c)
            /\ kind = "Daily" => SameDay(c, t)
            /\ kind = "Weekly" =>
                    /\ Weekday(c) = 0
                    /\ ToOrdinal(c) <= ToOrdinal(t) /\ ToOrdinal(t) <= ToOrdinal(c) + 6
                    /\ (Weekday(t) = 0 /\ t.hour = 0) => c = t
            /\ kind = "Monthly" => c.day = 1 /\ c.month = t.month /\ c.year = t.year
            /\ ToHours(c) <= ToHours(t)
            /\ ToHours(t) < ToHours(NextBucket(kind, c))
            /\ \A u \in ClampTimestamps :
                    SameBucket(kind, t, u) <=> (Clamp(kind, u) = c)

\* a Weekly clamp of a Sunday's last hour
C7_Witness ==
    /\ pc = "clamped"
    /\ plot[1].kind = "Weekly"
    /\ Weekday(dt[1]) = 6
    /\ dt[1].hour = 23

\* the relevant columns of the panel: range_columns when given, else the columns of
\* all its series
RelevantColumns ==
    IF plot[1].range_columns # None THEN plot[1].range_columns[1]
    ELSE {c \in {"a", "b"} :
            \E i \in 1..Len(plot[1].series) :
                \E j \in 1..Len(plot[1].series[i].columns) :
                    plot[1].series[i].columns[j] = c}

HasValue(row) == \E c \in RelevantColumns : row[c] # NaN

\* C8: the reference timestamp of _bounds is the largest index among the rows with
\* a value in some relevant column (range_columns when given, else the columns of
\* all the series); rows without a value in any relevant column do not move the
\* window.
C8_ReferenceTimestamp ==
    pc = "data" =>
        LET valued == {i \in 1..Len(raw) : HasValue(raw[i])}
        IN  /\ valued = {} => max_dt = None /\ bounds = None
            /\ valued # {} =>
                    /\ max_dt # None
                    /\ \E i \in valued : raw[i].ts = max_dt[1]
                    /\ \A i \in valued : ToHours(raw[i].ts) <= ToHours(max_dt[1])
                    /\ bounds = Some(PlotBounds(plot[1],
                            Plot_max_dt(plot[1], SelectSeq(raw, HasValue))[1]))

\* a table whose last row, a day or more after the reference row, has no value in
\* the columns of the four series of the panel
C8_Witness ==
    /\ DataReturned
    /\ plot[1].range_columns = None
    /\ Len(plot[1].series) = 4
    /\ Len(raw) = 2
    /\ raw[2].a = NaN /\ raw[2].b = NaN
    /\ ToOrdinal(raw[2].ts) > ToOrdinal(max_dt[1])

\* C9: a bucket of the window in which every value of a series' columns is missing
\* is absent from that series' output, whatever the aggregation (the sum of the
\* auto-built series included): it is no error and it does not appear with zero.
C9_EmptyBucketAbsent ==
    DataReturned =>
        \A i \in 1..Len(data) : \A k \in WindowBuckets(i) :
            (\A j \in 1..Len(BucketRows(i, k)) :
                \A c \in 1..Len(plot[1].series[i].columns) :
                    BucketRows(i, k)[j][plot[1].series[i].columns[c]] = NaN)
                => k \notin DOMAIN data[i]

\* C10: a bucket whose denominator column sums to 0 is absent from the output of a
\* ratio series, whatever the sum of the numerator, and no exception is raised.
C10_ZeroDenominatorAbsent ==
    DataReturned =>
        \A i \in 1..Len(data) :
            plot[1].series[i].agg.fn = "ratio" =>
                \A k \in WindowBuckets(i) :
                    ColumnSum(BucketRows(i, k), plot[1].series[i].agg.denom) = 0
                        => k \notin DOMAIN data[i]

\* the part of C10 that the code meets: with a numerator that also sums to 0 the
\* bucket is absent
C10_ZeroOverZeroAbsent ==
    DataReturned =>
        \A i \in 1..Len(data) :
            plot[1].series[i].agg.fn = "ratio" =>
                \A k \in WindowBuckets(i) :
                    (/\ ColumnSum(BucketRows(i, k), plot[1].series[i].agg.denom) = 0
                     /\ ColumnSum(BucketRows(i, k), plot[1].series[i].agg.num) = 0)
                        => k \notin DOMAIN data[i]

\* the group-by call returned: its one-column selections do
Grouped == pc = "grouped" /\ exc = "none"

\* the rows of the month that starts at k with a value in column "a"
ValidOfMonth(k) == {i \in 1..Len(raw) : MonthIndex(raw[i].ts) = MonthIndex(k) /\ raw[i].a # NaN}

\* the sum of their values, each 1 or 3
SumOfMonth(k) ==
    Cardinality({i \in ValidOfMonth(k) : raw[i].a = <<1>>})
        + 3 * Cardinality({i \in ValidOfMonth(k) : raw[i].a = <<3>>})

\* C11: avg_daily over a bucket is the sum of the non-missing values divided by
\* the whole days from the earliest to the latest row with a value, plus one; the
\* rows without a value and the length of the month do not count.
C11_AvgDaily ==
    Grouped =>
        \A i \in 1..Len(raw) :
            LET k == DT(raw[i].ts.year, raw[i].ts.month, 1, 0)
            IN  ValidOfMonth(k) # {} =>
                    /\ k \in DOMAIN data[1]
                    /\ data[1][k].kind = "num"
                    /\ \E lo \in ValidOfMonth(k), hi \in ValidOfMonth(k) :
                        /\ \A j \in ValidOfMonth(k) :
                                /\ ToHours(raw[lo].ts) <= ToHours(raw[j].ts)
                                /\ ToHours(raw[j].ts) <= ToHours(raw[hi].ts)
                        /\ data[1][k].num
                                * (((ToHours(raw[hi].ts) - ToHours(raw[lo].ts)) \div 24) + 1)
                            = SumOfMonth(k) * data[1][k].den

\* a February with the values 3 on the 1st and 1 on the 2nd and a row without a
\* value on the 14th: the average is 4 / 2
C11_Witness ==
    /\ Grouped
    /\ Len(raw) = 3
    /\ raw[1] = [ts |-> DT(2023, 2, 1, 0), a |-> <<3>>, b |-> NaN]
    /\ raw[2] = [ts |-> DT(2023, 2, 2, 0), a |-> <<1>>, b |-> NaN]
    /\ raw[3] = [ts |-> DT(2023, 2, 14, 0), a |-> NaN, b |-> NaN]
    /\ data[1][DT(2023, 2, 1, 0)] = Float(2, 1)

\* C12: a bucket with no value is dropped from the result of avg_daily, for a
\* column name and for a list of one name alike, without an exception; a bucket
\* whose rows with a value are all of one day gets the sum of their values.
C12_AvgDailyEdges ==
    (pc = "grouped" /\ Len(call[1].columns) = 1) =>
        /\ exc = "none"
        /\ \A i \in 1..Len(raw) :
            LET k == DT(raw[i].ts.year, raw[i].ts.month, 1, 0)
            IN  /\ ValidOfMonth(k) = {} => k \notin DOMAIN data[1]
                /\ (/\ ValidOfMonth(k) # {}
                     /\ \A j \in ValidOfMonth(k), l \in ValidOfMonth(k) :
                            SameDay(raw[j].ts, raw[l].ts))
                        => /\ k \in DOMAIN data[1]
                           /\ data[1][k] = [kind |-> "num", num |-> SumOfMonth(k), den |-> 1]

\* a list of one name, a February whose two values are of the same day and a
\* March without a value
C12_Witness ==
    /\ Grouped
    /\ call[1].type = "DataFrame"
    /\ Len(raw) = 3
    /\ raw[1].ts = DT(2023, 2, 1, 0) /\ raw[1].a = <<1>>
    /\ raw[2].ts = DT(2023, 2, 1, 12) /\ raw[2].a = <<3>>
    /\ raw[3].ts = DT(2023, 3, 1, 0) /\ raw[3].a = NaN
    /\ DOMAIN data[1] = {DT(2023, 2, 1, 0)}

\* the largest bucket of an output, None when it has no bucket
MaxBucket(output) ==
    IF DOMAIN output = {} THEN None
    ELSE Some(CHOOSE k \in DOMAIN output :
                \A l \in DOMAIN output : ToHours(l) <= ToHours(k))

\* series j of the panel is series i with an offset of 12 months
OffsetPair(i, j) ==
    /\ plot[1].series[i].offset = None
    /\ plot[1].series[j].offset = Some([years |-> 1, months |-> 0, days |-> 0])
    /\ plot[1].series[j].columns = plot[1].series[i].columns
    /\ plot[1].series[j].agg = plot[1].series[i].agg

C14_OuterJoin ==
    DataReturned =>
        /\ frame # None
        /\ LET f == frame[1]
           IN  /\ Len(f.columns) = Len(plot[1].series)
               /\ \A c \in 1..Len(f.columns) : f.columns[c] = plot[1].series[c].label
               /\ {f.index[r] : r \in 1..Len(f.index)}
                    = UNION {DOMAIN data[c] : c \in 1..Len(data)}
               /\ \A r \in 1..(Len(f.index) - 1) :
                    ToHours(f.index[r]) < ToHours(f.index[r + 1])
               /\ Len(f.values) = Len(f.index)
               /\ \A r \in 1..Len(f.index) : \A c \in 1..Len(data) :
                    /\ f.values[r][c] # NaN <=> f.index[r] \in DOMAIN data[c]
                    /\ f.index[r] \in DOMAIN data[c]
                            => f.values[r][c] = <<data[c][f.index[r]]>>

\* a table of two buckets or more with a missing cell
C14_Witness ==
    /\ DataReturned
    /\ Len(frame[1].index) >= 2
    /\ Len(frame[1].columns) = 4
    /\ frame[1].values[1][1] # NaN
    /\ frame[1].values[2][1] = NaN
    /\ frame[1].values[2][2] # NaN

\* the rows of the caller's table in the window, as they were handed
RawWindowBuckets ==
    {Clamp(plot[1].kind, raw[r].ts) :
        r \in {q \in 1..Len(raw) : time_window(bounds[1], raw[q].ts)}}

\* C18: Plot.data leaves the caller's table as it was, offsets or not, and a sum
\* series without offset that comes after an offset series has the buckets of the
\* unshifted rows of the window.
C18_RawUnchanged ==
    pc = "data" =>
        /\ raw_after = raw
        /\ DataReturned =>
                \A i \in 1..Len(data) :
                    (/\ plot[1].series[i].offset = None
                     /\ plot[1].series[i].agg.fn = "sum"
                     /\ \E j \in 1..(i - 1) : plot[1].series[j].offset # None)
                        => DOMAIN data[i] = RawWindowBuckets

\* a panel whose offset series of a day has a bucket, and the sum series after it
\* too
C18_Witness ==
    /\ DataReturned
    /\ Len(data) = 4
    /\ DOMAIN data[2] # {}
    /\ DOMAIN data[3] # {}
    /\ raw_after = raw

\* C19: the bucket start of a clamp has the tzinfo of its argument, aware or
\* naive, for every granularity; the Bounds have the tzinfo of the reference
\* timestamp, and Plot.data never compares a naive with an aware timestamp, with
\* or without an offset.
C19_TimezonePreserved ==
    /\ pc = "clamped" => tzinfo.buckets = tzinfo.index
    /\ pc = "data" =>
            exc # "TypeError: can't compare offset-naive and offset-aware datetimes"
    /\ DataReturned =>
            /\ tzinfo.bounds = tzinfo.index
            /\ tzinfo.buckets = tzinfo.index

\* a Weekly panel with offset series over a table with an aware index, with a
\* bucket of the series shifted by a day
C19_Witness ==
    /\ DataOf("Weekly")
    /\ tzinfo.index = Some("UTC")
    /\ Len(data) = 4
    /\ DOMAIN data[2] # {}

\* the timestamp of row r for series i: shifted by the offset of the series, in
\* calendar arithmetic
ShiftedTs(i, r) ==
    IF plot[1].series[i].offset = None THEN raw[r].ts
    ELSE AddRelativeDelta(raw[r].ts, plot[1].series[i].offset[1].years,
                          plot[1].series[i].offset[1].months,
                          plot[1].series[i].offset[1].days)

\* the rows that contribute to bucket k of series i, and how many of them have
\* the value 1 in a column (the values are 0 and 1)
Contributing(i, k) ==
    {r \in 1..Len(raw) :
        /\ ToHours(bounds[1].earliest) <= ToHours(ShiftedTs(i, r))
        /\ ToHours(ShiftedTs(i, r)) < ToHours(bounds[1].latest)
        /\ SameBucket(plot[1].kind, ShiftedTs(i, r), k)}

Ones(i, k, col) == Cardinality({r \in Contributing(i, k) : raw[r][col] = <<1>>})

\* C20: a row with timestamp t is aggregated in the bucket of t + offset of a
\* series exactly when earliest <= t + offset < latest; each such row, rows with
\* the same timestamp too, counts once in the aggregate of that one bucket.
C20_ShiftFilterGroup ==
    DataReturned =>
        \A i \in 1..Len(data) :
            LET s == plot[1].series[i]
                buckets == DOMAIN data[i]
                            \cup {Clamp(plot[1].kind, ShiftedTs(i, r)) : r \in 1..Len(raw)}
            IN  \A k \in buckets :
                    IF s.agg.fn = "sum"
                    THEN /\ k \in DOMAIN data[i] <=> Contributing(i, k) # {}
                         /\ k \in DOMAIN data[i] =>
                                data[i][k] = [kind |-> "num",
                                              num |-> Ones(i, k, s.columns[1]), den |-> 1]
                    ELSE LET n == Ones(i, k, s.agg.num)
                             d == Ones(i, k, s.agg.denom)
                         IN  /\ k \in DOMAIN data[i]
                                    <=> (Contributing(i, k) # {} /\ ~(n = 0 /\ d = 0))
                             /\ k \in DOMAIN data[i] =>
                                    IF d = 0 THEN data[i][k].kind = "inf"
                                    ELSE /\ data[i][k].kind = "num"
                                         /\ data[i][k].num * d = n * data[i][k].den

\* two rows with the same timestamp, both counted in the sum of the month
C20_Witness ==
    /\ DataOf("Monthly")
    /\ Len(data) = 4
    /\ Len(raw) = 2
    /\ raw[1].ts = raw[2].ts
    /\ DT(2023, 12, 1, 0) \in DOMAIN data[3]
    /\ data[3][DT(2023, 12, 1, 0)].num = 2

\* Chart._plots was called on a Chart built without panels, and returned
AutoSelected == pc = "plots" /\ call[1].self.plots = <<>> /\ exc = "none"

\* the whole days from the earliest to the latest index of the table of the call
SpanDays ==
    LET rows == call[1].df[1].rows
    IN  CHOOSE d \in 0..400 :
            \E lo \in 1..Len(rows), hi \in 1..Len(rows) :
                /\ \A r \in 1..Len(rows) :
                        /\ ToHours(rows[lo].ts) <= ToHours(rows[r].ts)
                        /\ ToHours(rows[r].ts) <= ToHours(rows[hi].ts)
                /\ d * 24 <= ToHours(rows[hi].ts) - ToHours(rows[lo].ts)
                /\ ToHours(rows[hi].ts) - ToHours(rows[lo].ts) < (d + 1) * 24

\* the kinds and the window sizes of the panels returned
PanelSizes == [i \in 1..Len(plots) |-> <<plots[i].kind, plots[i].increments>>]

\* C15: without a panel list, Chart._plots chooses from the whole-day span d of
\* the index: Daily(d) for d < 14; Daily(7) and Weekly(4) for 14 <= d < 31;
\* Daily(7) and Weekly(6) for 31 <= d < 365; Daily(7), Weekly(6) and Monthly(12)
\* for d >= 365.  The list is never empty, and a panel list given to the Chart is
\* returned as it is, whatever the span.
C15_AutoSelection ==
    /\ AutoSelected =>
            /\ Len(plots) > 0
            /\ SpanDays < 14 => PanelSizes = <<<<"Daily", SpanDays>>>>
            /\ (14 <= SpanDays /\ SpanDays < 31)
                    => PanelSizes = <<<<"Daily", 7>>, <<"Weekly", 4>>>>
            /\ (31 <= SpanDays /\ SpanDays < 365)
                    => PanelSizes = <<<<"Daily", 7>>, <<"Weekly", 6>>>>
            /\ SpanDays >= 365
                    => PanelSizes = <<<<"Daily", 7>>, <<"Weekly", 6>>, <<"Monthly", 12>>>>
    /\ (pc = "plots" /\ call[1].self.plots # <<>> /\ call[1].df[1].datetime_index)
            => exc = "none" /\ plots = call[1].self.plots

\* an index from a noon to the midnight 14 days later, 13 whole days: one Daily
\* panel of 13 days
C15_Witness ==
    /\ AutoSelected
    /\ call[1].df[1].rows[1].ts = DT(2022, 7, 1, 12)
    /\ call[1].df[1].rows[2].ts = DT(2022, 7, 15, 0)
    /\ PanelSizes = <<<<"Daily", 13>>>>

\* C16: without a panel list, Chart._plots raises an Exception and returns no
\* panel when the index is not a DatetimeIndex, when the table has no numeric
\* column and when it has more than 4; with 1 to 4 numeric columns every panel has
\* one sum series without offset per numeric column, in column order, and no two
\* of them have the same line style.
C16_AutoSeries ==
    (pc = "plots" /\ call[1].self.plots = <<>>) =>
        LET df == call[1].df[1]
            n == Len(df.numeric_columns)
        IN  /\ exc = "Exception" <=> (~df.datetime_index \/ n = 0 \/ n > 4)
            /\ exc = "Exception" => plots = <<>> /\ data = <<>> /\ bounds = None
            /\ exc = "none" =>
                    \A p \in 1..Len(plots) :
                        /\ Len(plots[p].series) = n
                        /\ \A i \in 1..n :
                            /\ plots[p].series[i].columns = <<df.numeric_columns[i]>>
                            /\ plots[p].series[i].label = df.numeric_columns[i]
                            /\ plots[p].series[i].agg = np_sum
                            /\ plots[p].series[i].offset = None
                        /\ \A i \in 1..n, j \in 1..n :
                            i # j => plots[p].series[i].style.linestyle
                                        # plots[p].series[j].style.linestyle

\* four numeric columns: three panels of four series
C16_Witness ==
    /\ AutoSelected
    /\ Len(call[1].df[1].numeric_columns) = 4
    /\ Len(plots) = 3
    /\ Len(plots[3].series) = 4

\* the table of the call has no auto-selection path
NoAutoSelection ==
    \/ ~call[1].df[1].datetime_index
    \/ Len(call[1].df[1].numeric_columns) = 0
    \/ Len(call[1].df[1].numeric_columns) > 4

\* C17: a Chart with an empty panel list over a table without an auto-selection
\* path fails when it is constructed: the Chart is never there for _plots to be
\* called on it.
C17_EmptyChartFailsAtConstruction ==
    (/\ pc \in {"plots", "chartlib"}
     /\ call[1].self.plots = <<>>
     /\ NoAutoSelection)
        => pc = "chartlib" /\ exc = "AssertionError"

\* t is the start of a bucket: a midnight, of a Monday for the weeks and of a 1st
\* for the months
BucketStart(kind, t) ==
    /\ IsMidnight(t)
    /\ kind = "Weekly" => Weekday(t) = 0
    /\ kind = "Monthly" => t.day = 1

\* C21: for every granularity, window size n >= 0, table and series, the Bounds
\* are bucket-aligned (each is its own clamp), every bucket of a series' output is
\* its own clamp and lies in earliest <= b < latest, and the table of the panel
\* has at most n rows.
C21_BucketAligned ==
    DataReturned =>
        LET kind == plot[1].kind
            b == bounds[1]
        IN  /\ BucketStart(kind, b.earliest) /\ Clamp(kind, b.earliest) = b.earliest
            /\ BucketStart(kind, b.latest) /\ Clamp(kind, b.latest) = b.latest
            /\ \A i \in 1..Len(data) : \A k \in DOMAIN data[i] :
                    /\ BucketStart(kind, k) /\ Clamp(kind, k) = k
                    /\ ToHours(b.earliest) <= ToHours(k)
                    /\ ToHours(k) < ToHours(b.latest)
            /\ Len(frame[1].index) <= plot[1].increments

\* a Weekly panel of two weeks whose table has both
C21_Witness ==
    /\ DataOf("Weekly")
    /\ plot[1].increments = 2
    /\ Len(plot[1].series) = 4
    /\ Len(frame[1].index) = 2

\* ------------------------------------------------------------------ athena
\* src/nooda/vendor/aws/athena.py.  A result page is [ColumnInfo, Rows]; a row
\* is its Data, a sequence of cells; a cell is Some(s) with s its VarCharValue,
\* or None when it has none (a null).
\* the most pages a query's result has
MaxPages == 2

\* float(val): the strings that are numbers, and ValueError for the others
NumericStrings == {"1.5", "2"}

Str(val) == [type |-> "str", val |-> val]

Raise(err) == [type |-> "raise", val |-> err]

float(val) ==
    IF val \in NumericStrings THEN [type |-> "float", val |-> val]
    ELSE Raise("ValueError")

parse_athena_col(col, typ) ==
    LET val == IF col = None THEN "" ELSE col[1]
    IN  IF typ = "varchar" THEN Str(val)
        ELSE IF typ = "double" THEN float(val)
        ELSE Raise("Exception: unknown type")

Min(a, b) == IF a <= b THEN a ELSE b

\* the dict comprehension over zip(row["Data"], column_info): None when a
\* column raises; a name that occurs twice keeps its last value
ParseRow(row, column_info) ==
    LET n == Min(Len(row), Len(column_info))
        cols == [i \in 1..n |-> parse_athena_col(row[i], column_info[i].Type)]
        last(name) == CHOOSE i \in 1..n :
                        /\ column_info[i].Name = name
                        /\ \A j \in 1..n : column_info[j].Name = name => j <= i
    IN  IF \E i \in 1..n : cols[i].type = "raise"
        THEN None
        ELSE Some([name \in {column_info[i].Name : i \in 1..n} |-> cols[last(name)]])

\* the loop of _parse_athena_rows from row i on: a row that fails is skipped
RECURSIVE parse_athena_rows_from(_, _, _)
parse_athena_rows_from(rows, column_info, i) ==
    IF i > Len(rows) THEN <<>>
    ELSE LET parsed == ParseRow(rows[i], column_info)
         IN  (IF parsed = None THEN <<>> ELSE <<parsed[1]>>)
                \o parse_athena_rows_from(rows, column_info, i + 1)

parse_athena_rows(result_set) ==
    parse_athena_rows_from(result_set.Rows, result_set.ColumnInfo, 1)

\* the states in which the polling loop of _query_athena stops
Finished_not_queued(state) == state # "QUEUED"

Finished(state) == state \in {"SUCCEEDED", "FAILED", "CANCELLED"}

\* The service.  An execution is QUEUED, then RUNNING, then in one of three
\* final states.  get_query_results answers with the first page, or with the
\* page a NextToken names; every page but the last carries the NextToken of
\* the next one.  It refuses an execution that has not succeeded.
ExecutionStates == {"QUEUED", "RUNNING", "SUCCEEDED", "FAILED", "CANCELLED"}

ExecutionSuccessors(state) ==
    IF state = "QUEUED" THEN {"RUNNING"}
    ELSE IF state = "RUNNING" THEN {"SUCCEEDED", "FAILED", "CANCELLED"}
    ELSE {}

get_query_results(pages, token) ==
    LET i == IF token = None THEN 1 ELSE token[1]
    IN  [ResultSet |-> pages[i],
         NextToken |-> IF i < Len(pages) THEN Some(i + 1) ELSE None]

KeyValue == <<[Name |-> "k", Type |-> "varchar"], [Name |-> "v", Type |-> "double"]>>

ResultSets ==
    { [ColumnInfo |-> KeyValue,
       Rows |-> << <<Some("k"), Some("v")>>, <<Some("a"), Some("1.5")>>,
                   <<Some("b"), None>> >>],
      [ColumnInfo |-> KeyValue,
       Rows |-> << <<Some("c"), Some("2")>>, <<Some("d")>> >>],
      [ColumnInfo |-> KeyValue, Rows |-> <<>>],
      [ColumnInfo |-> <<[Name |-> "n", Type |-> "bigint"]>>,
       Rows |-> << <<Some("7")>> >>] }

ResultPages == UNION {[1..n -> ResultSets] : n \in 1..MaxPages}

\* _query_athena up to its loops: start_query_execution unless an
\* execution_id is given
query_athena ==
    /\ athena.pc = "idle"
    /\ \E given \in BOOLEAN, pages \in ResultPages, state \in ExecutionStates :
        /\ given \/ state = "QUEUED"
        /\ athena' = [pc |-> IF given THEN "results" ELSE "polling",
                      given |-> given, state |-> state, observed |-> None,
                      pages |-> pages, response |-> None, requested |-> <<>>,
                      rows |-> <<>>, exc |-> "none"]
    /\ UNCHANGED <<engine, slack, ipython, publish>>

\* the service moves the execution on
ExecutionProgress ==
    /\ athena.pc \in {"polling", "results"}
    /\ \E state \in ExecutionSuccessors(athena.state) :
            athena' = [athena EXCEPT !.state = state]
    /\ UNCHANGED <<engine, slack, ipython, publish>>

\* one round of the polling loop: get_query_execution, then leave or sleep
PollExecution ==
    /\ athena.pc = "polling"
    /\ athena' = [athena EXCEPT
                    !.observed = Some(athena.state),
                    !.pc = IF Finished(athena.state) THEN "results" ELSE "polling"]
    /\ UNCHANGED <<engine, slack, ipython, publish>>

\* the first get_query_results
FirstResults ==
    /\ athena.pc = "results"
    /\ IF athena.state = "SUCCEEDED"
       THEN athena' = [athena EXCEPT
                        !.requested = <<None>>,
                        !.response = Some(get_query_results(athena.pages, None)),
                        !.pc = "paging"]
       ELSE athena' = [athena EXCEPT
                        !.requested = <<None>>,
                        !.pc = "raised",
                        !.exc = "ClientError"]
    /\ UNCHANGED <<engine, slack, ipython, publish>>

\* one round of the result loop: parse the page, then follow its NextToken
\* or return the rows
NextPage ==
    /\ athena.pc = "paging"
    /\ \E response \in {athena.response[1]} :
        \E rows \in {athena.rows \o parse_athena_rows(response.ResultSet)} :
            IF response.NextToken # None
            THEN athena' = [athena EXCEPT
                    !.rows = rows,
                    !.requested = Append(@, response.NextToken),
                    !.response = Some(get_query_results(athena.pages, response.NextToken))]
            ELSE athena' = [athena EXCEPT
                    !.rows = rows, !.response = None, !.pc = "returned"]
    /\ UNCHANGED <<engine, slack, ipython, publish>>

NextAthena ==
    \/ query_athena
    \/ ExecutionProgress
    \/ PollExecution
    \/ FirstResults
    \/ NextPage

\* The call is sequential code: each of its steps is taken when it is the next
\* one.  Nothing is assumed of the service.
SpecAthena ==
    /\ Init /\ [][NextAthena]_vars
    /\ WF_vars(PollExecution) /\ WF_vars(FirstResults) /\ WF_vars(NextPage)

\* A row parses when each cell that has a column is a varchar, or a double
\* whose text is a number.
CellParses(cell, info) ==
    \/ info.Type = "varchar"
    \/ info.Type = "double" /\ cell # None /\ cell[1] \in NumericStrings

RowParses(row, column_info) ==
    \A i \in 1..Len(row) : i <= Len(column_info) => CellParses(row[i], column_info[i])

RECURSIVE ParsedRowsOf(_, _)
ParsedRowsOf(pages, i) ==
    IF i > Len(pages) THEN <<>>
    ELSE SelectSeq(pages[i].Rows, LAMBDA row : RowParses(row, pages[i].ColumnInfo))
            \o ParsedRowsOf(pages, i + 1)

\* the cells a returned row was made of, in column order
RowCells(parsed, column_info) ==
    [i \in 1..Cardinality(DOMAIN parsed) |->
        IF parsed[column_info[i].Name].val = "" THEN None
        ELSE Some(parsed[column_info[i].Name].val)]

AthenaEnded == athena.pc \in {"returned", "raised"}

C22_Safety ==
    athena.pc # "idle" =>
        /\ (~athena.given /\ athena.requested # <<>>) =>
                /\ athena.observed # None
                /\ athena.observed[1] \in {"SUCCEEDED", "FAILED", "CANCELLED"}
        /\ \A i \in 1..Len(athena.requested) :
                athena.requested[i] = IF i = 1 THEN None ELSE Some(i)
        /\ athena.pc = "raised" => athena.state # "SUCCEEDED"
        /\ athena.pc = "returned" =>
                /\ Len(athena.requested) = Len(athena.pages)
                /\ LET expected == ParsedRowsOf(athena.pages, 1)
                   IN  /\ Len(athena.rows) = Len(expected)
                       /\ \A i \in 1..Len(expected) :
                            \E info \in {athena.pages[p].ColumnInfo : p \in 1..Len(athena.pages)} :
                                /\ Cardinality(DOMAIN athena.rows[i]) = Min(Len(expected[i]), Len(info))
                                /\ DOMAIN athena.rows[i] \subseteq {info[j].Name : j \in 1..Len(info)}
                                /\ RowCells(athena.rows[i], info) = expected[i]

\* C22: a call of _query_athena that starts the query itself asks for no
\* results before it has seen the execution SUCCEEDED, FAILED or CANCELLED;
\* it asks for the pages in order, each by the NextToken of the one before,
\* up to the page without one; the rows it returns are the rows that parse,
\* in page order, the others skipped; and once the execution is in a final
\* state the call ends.
C22_QueryAthena ==
    /\ []C22_Safety
    /\ (athena.pc # "idle" /\ athena.state \in {"SUCCEEDED", "FAILED", "CANCELLED"})
            ~> AthenaEnded

C22_Witness ==
    /\ athena.pc = "returned"
    /\ ~athena.given
    /\ Len(athena.pages) = 2
    /\ Len(athena.rows) = 3
    /\ Len(ParsedRowsOf(athena.pages, 1)) = 3
    /\ Len(athena.pages[1].Rows) + Len(athena.pages[2].Rows) = 5

\* ------------------------------------------------------------------- slack
\* src/nooda/slack/send.py.  len(channel) == 0 is channel = "".  The shares
\* of a file are [private, public], each a function from the channels to the
\* list of the ts of its shares there (the empty list where the dict of the
\* service has no key).
\* the most shares the uploaded file gets
MaxShares == 2

ShareChannels == {"C1", "C2"}

ShareTs == {"1.0", "2.0"}

NoShares ==
    [private |-> [c \in ShareChannels |-> <<>>], public |-> [c \in ShareChannels |-> <<>>]]

get_file_thread_public_first(file, channel_id) ==
    LET public == file.shares.public[channel_id]
        channel_share == IF Len(public) = 0 THEN file.shares.private[channel_id] ELSE public
    IN  IF Len(channel_share) = 0 THEN None ELSE Some(channel_share[1])

get_file_thread(file, channel_id) ==
    LET private == file.shares.private[channel_id]
        channel_share == IF Len(private) = 0 THEN file.shares.public[channel_id] ELSE private
    IN  IF Len(channel_share) = 0 THEN None ELSE Some(channel_share[1])

Response(channel, ts, successful) ==
    [channel |-> channel, ts |-> ts, successful |-> successful]

\* The values sent: a string; a figure (it has savefig); a table (it has
\* to_markdown); a number, which has neither.
SentValues ==
    { [type |-> "str", text |-> "hello"], [type |-> "figure", text |-> "png"],
      [type |-> "table", text |-> "|a|"], [type |-> "int", text |-> "7"] }

\* a call of the client: the method and its arguments (text in its parts)
ClientCall(method, channel, text, initial_comment, thread_ts) ==
    [method |-> method, channel |-> channel, text |-> text,
     initial_comment |-> initial_comment, thread_ts |-> thread_ts]

\* the text of the message a table is sent as, in its parts; "fence" stands
\* for the three backquotes of a code block
TableMessage(val, markdown) ==
    IF markdown # None THEN <<markdown[1], "\n", "fence", val.text, "fence">>
    ELSE <<"fence", val.text, "fence">>

\* send up to its return, its raise or its polling loop; message_ts is the ts
\* the service gives a posted message
send(SLACK_TOKEN, channel, val, markdown, thread_ts, message_ts) ==
    LET entered == [pc |-> "returned", token |-> SLACK_TOKEN, channel |-> channel,
                 val |-> val, markdown |-> markdown, thread_ts |-> thread_ts,
                 calls |-> <<>>, polled |-> FALSE, shares |-> NoShares,
                 ts |-> None, response |-> None, exc |-> "none"]
    IN  IF SLACK_TOKEN = None
        THEN [entered EXCEPT !.response = Some(Response(channel, None, FALSE))]
        ELSE IF channel = ""
        THEN [entered EXCEPT !.response = Some(Response(channel, None, FALSE))]
        ELSE IF val.type = "str"
        THEN [entered EXCEPT
                !.calls = <<ClientCall("chat_postMessage", channel, <<val.text>>,
                                       None, thread_ts)>>,
                !.ts = Some(message_ts),
                !.response = Some(Response(channel, Some(message_ts), TRUE))]
        ELSE IF val.type = "figure"
        THEN [entered EXCEPT
                !.calls = <<ClientCall("files_upload_v2", channel, <<>>,
                                       markdown, thread_ts)>>,
                !.pc = "polling"]
        ELSE IF val.type = "table"
        THEN [entered EXCEPT
                !.calls = <<ClientCall("chat_postMessage", channel,
                                       TableMessage(val, markdown), None, thread_ts)>>,
                !.ts = Some(message_ts),
                !.response = Some(Response(channel, Some(message_ts), TRUE))]
        ELSE [entered EXCEPT !.pc = "raised", !.exc = "TypeError"]

SendCall ==
    /\ slack.pc = "idle"
    /\ \E SLACK_TOKEN \in {None, Some("xoxb")}, channel \in {"", "C1"},
          val \in SentValues, markdown \in {None, Some("*md*")},
          thread_ts \in {None, Some("0.5")}, message_ts \in {"3.0"} :
            slack' = send(SLACK_TOKEN, channel, val, markdown, thread_ts, message_ts)
    /\ UNCHANGED <<engine, athena, ipython, publish>>

ShareCount(shares) ==
    LET RECURSIVE Sum(_)
        Sum(cs) == IF cs = {} THEN 0
                   ELSE LET c == CHOOSE x \in cs : TRUE
                        IN  Len(shares.private[c]) + Len(shares.public[c]) + Sum(cs \ {c})
    IN  Sum(ShareChannels)

\* the service shares the uploaded file in a channel
ShareFile ==
    /\ slack.pc = "polling"
    /\ ShareCount(slack.shares) < MaxShares
    /\ \E visibility \in {"private", "public"}, c \in ShareChannels, ts \in ShareTs :
            slack' = [slack EXCEPT !.shares[visibility][c] = Append(@, ts)]
    /\ UNCHANGED <<engine, athena, ipython, publish>>

\* one round of the polling loop: sleep, files_info, get_file_thread
PollFile ==
    /\ slack.pc = "polling"
    /\ \E ts \in {get_file_thread([shares |-> slack.shares], slack.channel)} :
            slack' = [slack EXCEPT
                        !.polled = TRUE,
                        !.ts = ts,
                        !.pc = IF ts = None THEN "polling" ELSE "returned",
                        !.response = IF ts = None THEN None
                                     ELSE Some(Response(slack.channel, ts, TRUE))]
    /\ UNCHANGED <<engine, athena, ipython, publish>>

NextSend ==
    \/ SendCall
    \/ ShareFile
    \/ PollFile

\* The polling loop goes round as long as it has found no share.  Nothing is
\* assumed of the service.
SpecSend == Init /\ [][NextSend]_vars /\ WF_vars(PollFile)

Contacting == slack.token # None /\ slack.channel # ""

TargetShares == slack.shares.private[slack.channel] \o slack.shares.public[slack.channel]

C23_Safety ==
    slack.pc # "idle" =>
        /\ ~Contacting =>
                /\ slack.pc = "returned"
                /\ slack.response = Some(Response(slack.channel, None, FALSE))
                /\ slack.calls = <<>> /\ ~slack.polled
        /\ (Contacting /\ slack.val.type = "figure") =>
                /\ Len(slack.calls) = 1 /\ slack.calls[1].method = "files_upload_v2"
                /\ slack.pc \in {"polling", "returned"}
                /\ slack.pc = "polling" => slack.response = None
                /\ slack.pc = "returned" =>
                        /\ slack.polled
                        /\ TargetShares # <<>>
                        /\ slack.response =
                            Some(Response(slack.channel, Some(TargetShares[1]), TRUE))
        /\ (Contacting /\ slack.val.type = "int") =>
                /\ slack.pc = "raised" /\ slack.exc = "TypeError"
                /\ slack.calls = <<>> /\ slack.response = None
        /\ (slack.response # None /\ slack.response[1].successful) =>
                slack.response[1].ts # None

\* C23: send returns Response(channel, None, False) and calls no method of the
\* client when SLACK_TOKEN is unset or the channel is empty; for a figure it
\* uploads, then polls until the file has a share in the target channel, and
\* returns successful with the ts of the first private share there, or of the
\* first public one when there is no private one; it leaves the loop only
\* with such a share, and does leave it once there is one; a value that is no
\* string, figure or table raises TypeError.
C23_Send ==
    /\ []C23_Safety
    /\ (slack.pc = "polling" /\ TargetShares # <<>>) ~> slack.pc = "returned"

C23_Witness ==
    /\ slack.pc = "returned"
    /\ Contacting
    /\ slack.val.type = "figure"
    /\ Len(slack.shares.private[slack.channel]) = 1
    /\ Len(slack.shares.public[slack.channel]) = 1
    /\ slack.shares.private[slack.channel] # slack.shares.public[slack.channel]

\* ------------------------------------------------------------ slack magics
\* src/nooda/slack/magic.py.  An argument of a magic line is None when it is
\* not given, or [form, text]: an identifier, or a string in double or in
\* single quotes with text what is between them.
\* the most magic lines a notebook session runs
MaxInvocations == 2

LAST_RESPONSE_VAR == "__slack_last_response"

Returned(out) == [exc |-> "none", out |-> out]

var_or_string(arg, user_ns) ==
    IF arg = None THEN Returned(None)
    ELSE IF arg[1].form = "identifier"
    THEN IF arg[1].text \notin DOMAIN user_ns
         THEN [exc |-> "NameError", out |-> None]
         ELSE IF user_ns[arg[1].text].type = "NoneType"
         THEN [exc |-> "ValueError", out |-> None]
         ELSE Returned(Some(user_ns[arg[1].text]))
    ELSE IF arg[1].form \in {"double quoted", "single quoted"}
    THEN Returned(Some([type |-> "str", text |-> arg[1].text]))
    ELSE [exc |-> "NameError", out |-> None]

\* the parameters of send and the fields of the Response it returns
send_parameters == {"channel", "val", "markdown", "thread_ts"}

Response_fields == {"channel", "ts", "successful"}

\* What a call of send that is entered ends with: its return or its raise,
\* with or without SLACK_TOKEN in the environment; for a figure, the return
\* after a share with some ts was found.
SendOutcomes(channel, val, markdown, thread_ts) ==
    UNION { LET entered == send(SLACK_TOKEN, channel, val, markdown, thread_ts, "3.0")
            IN  IF entered.pc = "polling"
                THEN {[exc |-> "none", response |-> Some(Response(channel, Some(ts), TRUE))] :
                        ts \in ShareTs}
                ELSE {[exc |-> entered.exc, response |-> entered.response]}
            : SLACK_TOKEN \in {None, Some("xoxb")} }

Text(out) == IF out = None THEN None ELSE Some(out[1].text)

\* what a magic line leaves in the history: the exception it ended with, the
\* arguments send was entered with, and the response it stored
Invocation(magic, line, err, sent, stored) ==
    [magic |-> magic, line |-> line, exc |-> err, sent |-> sent, stored |-> stored]

SendArgs(channel, val, markdown, thread_ts) ==
    [channel |-> channel, val |-> val, markdown |-> markdown, thread_ts |-> thread_ts]

Store(user_ns, name, value) ==
    [n \in DOMAIN user_ns \cup {name} |-> IF n = name THEN value ELSE user_ns[n]]

\* _slack_line_magic(line): the states it can leave the session in
slack_line_magic(line, session) ==
    LET ns == session.user_ns
        channel == var_or_string(Some(line.channel), ns)
        message == var_or_string(Some(line.message), ns)
        markdown == var_or_string(line.markdown, ns)
        token == var_or_string(line.token, ns)
        failed(err) == {[session EXCEPT !.history =
                            Append(@, Invocation("slack", line, err, None, None))]}
    IN  IF channel.exc # "none" THEN failed(channel.exc)
        ELSE IF message.exc # "none" THEN failed(message.exc)
        ELSE IF markdown.exc # "none" THEN failed(markdown.exc)
        ELSE IF token.exc # "none" THEN failed(token.exc)
        ELSE IF ~({"markdown", "token"} \subseteq send_parameters)
        THEN failed("TypeError")
        ELSE LET sent == SendArgs(channel.out[1].text, message.out[1],
                                  Text(markdown.out), None)
             IN  { IF o.exc # "none"
                   THEN [session EXCEPT !.history =
                            Append(@, Invocation("slack", line, o.exc, Some(sent), None))]
                   ELSE [user_ns |-> Store(ns, LAST_RESPONSE_VAR,
                                           [type |-> "Response", text |-> "",
                                            response |-> o.response[1]]),
                         history |-> Append(session.history,
                            Invocation("slack", line, "none", Some(sent), o.response))]
                   : o \in SendOutcomes(sent.channel, sent.val, sent.markdown, None) }

\* _slack_thread_line_magic(line): the states it can leave the session in
slack_thread_line_magic(line, session) ==
    LET ns == session.user_ns
        message == var_or_string(Some(line.message), ns)
        markdown == var_or_string(line.markdown, ns)
        failed(err) == {[session EXCEPT !.history =
                            Append(@, Invocation("slack_thread", line, err, None, None))]}
    IN  IF LAST_RESPONSE_VAR \notin DOMAIN ns THEN failed("ValueError")
        ELSE IF ns[LAST_RESPONSE_VAR].type = "NoneType" THEN failed("ValueError")
        ELSE IF message.exc # "none" THEN failed(message.exc)
        ELSE IF markdown.exc # "none" THEN failed(markdown.exc)
        ELSE IF "token" \notin Response_fields THEN failed("AttributeError")
        ELSE IF ~({"markdown", "thread_ts", "token"} \subseteq send_parameters)
        THEN failed("TypeError")
        ELSE LET last_response == ns[LAST_RESPONSE_VAR].response
                 sent == SendArgs(last_response.channel, message.out[1],
                                  Text(markdown.out), last_response.ts)
             IN  { [session EXCEPT !.history =
                        Append(@, Invocation("slack_thread", line, o.exc, Some(sent), None))]
                   : o \in SendOutcomes(sent.channel, sent.val, sent.markdown,
                                        sent.thread_ts) }

Identifier(name) == [form |-> "identifier", text |-> name]

DoubleQuoted(text) == [form |-> "double quoted", text |-> text]

SingleQuoted(text) == [form |-> "single quoted", text |-> text]

SlackLines ==
    [channel : {Identifier("chan"), DoubleQuoted("C1"), Identifier("undefined")},
     message : {DoubleQuoted("hello"), Identifier("nothing")},
     markdown : {None},
     token : {None, Some(SingleQuoted("xoxb"))}]

SlackThreadLines ==
    [message : {DoubleQuoted("reply"), Identifier("nothing")},
     markdown : {None, Some(DoubleQuoted("*md*"))}]

SlackMagic ==
    /\ Len(ipython.history) < MaxInvocations
    /\ \E line \in SlackLines : ipython' \in slack_line_magic(line, ipython)
    /\ UNCHANGED <<engine, athena, slack, publish>>

SlackThreadMagic ==
    /\ Len(ipython.history) < MaxInvocations
    /\ \E line \in SlackThreadLines : ipython' \in slack_thread_line_magic(line, ipython)
    /\ UNCHANGED <<engine, athena, slack, publish>>

NextMagic ==
    \/ SlackMagic
    \/ SlackThreadMagic

SpecMagic == Init /\ [][NextMagic]_vars

\* The arguments of a %slack line resolve: send is called.
Resolves(line, user_ns) ==
    /\ var_or_string(Some(line.channel), user_ns).exc = "none"
    /\ var_or_string(Some(line.message), user_ns).exc = "none"
    /\ var_or_string(line.markdown, user_ns).exc = "none"
    /\ var_or_string(line.token, user_ns).exc = "none"

\* the responses stored before line i of the history, oldest first
StoredBefore(i) ==
    SelectSeq(SubSeq(ipython.history, 1, i - 1), LAMBDA h : h.stored # None)

\* C24: in a session of %slack and %slack_thread lines, a %slack_thread with no
\* response stored before it raises ValueError; a %slack whose arguments
\* resolve enters send, and when send returns its response is stored; a
\* %slack_thread after it enters send with that response's channel and with
\* thread_ts that response's ts.
C24_ThreadFollowsSlack ==
    \A i \in 1..Len(ipython.history) :
        LET h == ipython.history[i]
            before == StoredBefore(i)
        IN  /\ (h.magic = "slack_thread" /\ before = <<>>) => h.exc = "ValueError"
            /\ (h.magic = "slack" /\ Resolves(h.line, UserNs)) =>
                    /\ h.sent # None
                    /\ h.sent[1].thread_ts = None
                    /\ h.exc = "none" => h.stored # None
            /\ (h.magic = "slack_thread" /\ before # <<>> /\ h.sent # None) =>
                    /\ h.sent[1].channel = before[Len(before)][1].channel
                    /\ h.sent[1].thread_ts = before[Len(before)][1].ts

\* ----------------------------------------------------------------- publish
\* src/nooda/publish/__main__.py.  The headers of the document are the
\* sequence of their levels, in document order.  An entry is referred to by
\* its number: 0 is header_tree, k the entry of the k-th header; children[k + 1]
\* is the list of the children of entry k.  An id is the sequence of the
\* numbers its string joins with ".".
\* the most headers a document has
MaxHeaders == 3

\* header_tags, by level
HeaderLevels == 2..6

Documents == UNION {[1..n -> HeaderLevels] : n \in 0..MaxHeaders}

MinLevel == CHOOSE l \in HeaderLevels : \A m \in HeaderLevels : l <= m

HeaderEntry(id, elem) == [id |-> id, elem |-> elem]

\* header_entries up to its loop
header_entries(soup) ==
    [pc |-> IF Len(soup) = 0 THEN "returned" ELSE "loop",
     soup |-> soup,
     h |-> 1,
     children |-> <<<<>>>>,
     all_headers |-> <<>>,
     current_level |-> MinLevel,
     level_offset |-> MinLevel - 1,
     current_ancestry |-> <<>>,
     current_entry |-> Some(0),
     last_elem |-> None,
     exc |-> "none"]

HeaderEntriesCall ==
    /\ publish.pc = "idle"
    /\ \E soup \in Documents : publish' = header_entries(soup)
    /\ UNCHANGED <<engine, athena, slack, ipython>>

Raises(self, err) == [self EXCEPT !.pc = "raised", !.exc = err]

\* the rest of the loop body once current_entry and current_ancestry are set:
\* the id, the new entry, and the next header or the return
PlaceHeader(self, level, current_ancestry, current_entry) ==
    IF current_entry = None
    THEN Raises(self, "AttributeError")
    ELSE LET id == [d \in 1..Len(current_ancestry) |->
                        Len(self.children[current_ancestry[d][1] + 1])]
                   \o <<Len(self.children[current_entry[1] + 1]) + 1>>
             last_elem == Len(self.all_headers) + 1
         IN  [self EXCEPT
                !.current_ancestry = current_ancestry,
                !.current_entry = current_entry,
                !.last_elem = Some(last_elem),
                !.all_headers = Append(@, HeaderEntry(id, level)),
                !.children = Append([@ EXCEPT ![current_entry[1] + 1] =
                                        Append(@, last_elem)], <<>>),
                !.current_level = level,
                !.h = self.h + 1,
                !.pc = IF self.h = Len(self.soup) THEN "returned" ELSE "loop"]

\* one round of the loop of header_entries
HeaderLoop(self) ==
    LET level == self.soup[self.h]
        index == level - self.level_offset - 1
    IN  IF level > self.current_level
        THEN PlaceHeader(self, level,
                         Append(self.current_ancestry, self.current_entry),
                         self.last_elem)
        ELSE IF level < self.current_level
        THEN IF index >= Len(self.current_ancestry)
             THEN Raises(self, "IndexError")
             ELSE PlaceHeader(self, level,
                              SubSeq(self.current_ancestry, 1, index),
                              self.current_ancestry[index + 1])
        ELSE PlaceHeader(self, level, self.current_ancestry, self.current_entry)

HeaderStep ==
    /\ publish.pc = "loop"
    /\ publish' = HeaderLoop(publish)
    /\ UNCHANGED <<engine, athena, slack, ipython>>

NextPublish ==
    \/ HeaderEntriesCall
    \/ HeaderStep

SpecPublish == Init /\ [][NextPublish]_vars

\* The parent of header k: the nearest header before it of a lower level, or
\* the root, 0.
ParentOf(soup, k) ==
    LET lower == {j \in 1..(k - 1) : soup[j] < soup[k]}
    IN  IF lower = {} THEN 0 ELSE CHOOSE j \in lower : \A i \in lower : i <= j

\* the places of entry k in the lists of children: the pairs <<parent, position>>
PlacesOf(k) ==
    {<<p, n>> \in (0..Len(publish.all_headers)) \X (1..Len(publish.all_headers)) :
        /\ n <= Len(publish.children[p + 1])
        /\ publish.children[p + 1][n] = k}

IdOf(k) == IF k = 0 THEN <<>> ELSE publish.all_headers[k].id

\* C25: for every sequence of headers of levels h2 to h6, header_entries
\* completes without error, every header is in the tree once, as a child of
\* the nearest header before it of a lower level, or of the root, the ids are
\* pairwise distinct, and each is the id of the parent followed by the
\* header's position among its siblings, from 1.
C25_HeaderTree ==
    /\ publish.pc # "raised"
    /\ publish.pc = "returned" =>
        /\ Len(publish.all_headers) = Len(publish.soup)
        /\ \A k \in 1..Len(publish.soup) :
            /\ Cardinality(PlacesOf(k)) = 1
            /\ \A place \in PlacesOf(k) :
                /\ place[1] = ParentOf(publish.soup, k)
                /\ IdOf(k) = IdOf(place[1]) \o <<place[2]>>
            /\ \A j \in 1..Len(publish.soup) : j # k => IdOf(j) # IdOf(k)

====
